---- MODULE Spec2Model ----
(***************************************************************************)
(* A model of the pdf-rag web application: the upload directory, the       *)
(* process-wide vector store and retrieval chain of app.py, the RAGHandler *)
(* and MemoryManager classes, and the reply parser of utils.py / app.py.   *)
(*                                                                         *)
(* Python strings are sequences of tokens.  A token is a character or one  *)
(* of the words the code searches for ("ANSWER:", "FILENAME:", ...), so    *)
(* that split, strip, startswith, endswith and join are computed on the    *)
(* sequence the way the interpreter computes them on the characters.       *)
(***************************************************************************)
EXTENDS Integers, Sequences, FiniteSets, TLC

VARIABLES
    uploads,         \* UPLOAD_FOLDER: filename -> kind of content on disk
    downloads,       \* DOWNLOAD_FOLDER: the summary files written so far
    vectorstore,     \* app.py global vectorstore
    rag_chain,       \* app.py global rag_chain
    chat_memory,     \* app.py global chat_memory: session id -> deque of turns
    objects,         \* number of index / chain objects constructed so far
    llm_call,        \* the last invocation handed to the retrieval chain
    last,            \* the last HTTP exchange: request and response
    pre_upload,      \* history: ids of the objects that existed at the last successful upload
    requests,        \* number of requests handled so far
    handler,         \* the RAGHandler instance: its four attributes
    h_call,          \* the last RAGHandler method call and its outcome
    memory_manager,  \* the MemoryManager instance: chat_memory of the class
    sent,            \* history: session id -> turns appended (n), of them before the last clear (base)
    m_call,          \* the last MemoryManager method call and its outcome
    reply,           \* the reply text handed to the parser
    parsed,          \* the parser's result for reply, with the caller's answer extraction
    content,         \* the summary text handed to the PDF formatter
    story,           \* the flowables format_content_for_pdf returned for content
    worker,          \* the gunicorn worker whose module globals are the app variables
    idle,            \* the module globals of the workers that are not handling a request
    threads,         \* request threads of one process: position and locals of each
    deref            \* history: the uses of the global vectorstore by ask_question threads

vars == <<uploads, downloads, vectorstore, rag_chain, chat_memory, objects, llm_call,
          last, pre_upload, requests, handler, h_call, memory_manager, sent, m_call,
          reply, parsed, content, story, worker, idle, threads, deref>>

appVars == <<vectorstore, rag_chain, chat_memory, objects, llm_call, last, pre_upload,
             requests, downloads>>
handlerVars == <<handler, h_call>>
memoryVars == <<memory_manager, sent, m_call>>
parserVars == <<reply, parsed>>
formatterVars == <<content, story>>
workerVars == <<worker, idle>>
threadVars == <<threads, deref>>
restVars == <<formatterVars, workerVars, threadVars>>

-----------------------------------------------------------------------------
(* Python values *)

\* Python's None where an object (an index, a chain, a response) is expected: a
\* record, so that it compares unequal to every object of the model.
None == [py |-> "None"]

\* A bool or a str where the model also holds objects or None in the same place
\* (a method's return value): boxed, so that any two such values compare.
PyBool(b) == [bool |-> b]
PyStr(s) == [str |-> s]

\* Python's None where a string is expected: a token sequence that is no string
\* of the model, so that it compares unequal to every string, '' included.
NoString == <<"<None>">>

\* bool(s) of an optional string: None and '' are falsy.
Truthy(s) == s # NoString /\ s # <<>>

-----------------------------------------------------------------------------
(* str methods, on token sequences *)

IsSpace(c) == c \in {" ", "\n"}

RECURSIVE lstrip(_)
lstrip(s) == IF s # <<>> /\ IsSpace(Head(s)) THEN lstrip(Tail(s)) ELSE s

RECURSIVE rstrip(_)
rstrip(s) ==
    IF s # <<>> /\ IsSpace(s[Len(s)]) THEN rstrip(SubSeq(s, 1, Len(s) - 1)) ELSE s

strip(s) == rstrip(lstrip(s))

\* least index of token sep in s, 0 when absent
find(s, sep) ==
    IF \E i \in 1..Len(s) : s[i] = sep
    THEN CHOOSE i \in 1..Len(s) : s[i] = sep /\ \A j \in 1..(i - 1) : s[j] # sep
    ELSE 0

\* greatest index of token sep in s, 0 when absent
rfind(s, sep) ==
    IF \E i \in 1..Len(s) : s[i] = sep
    THEN CHOOSE i \in 1..Len(s) : s[i] = sep /\ \A j \in (i + 1)..Len(s) : s[j] # sep
    ELSE 0

\* s.split(sep)
RECURSIVE split(_, _)
split(s, sep) ==
    LET i == find(s, sep)
    IN  IF i = 0 THEN <<s>>
        ELSE <<SubSeq(s, 1, i - 1)>> \o split(SubSeq(s, i + 1, Len(s)), sep)

\* s.split(sep, 1)
split1(s, sep) ==
    LET i == find(s, sep)
    IN  IF i = 0 THEN <<s>>
        ELSE <<SubSeq(s, 1, i - 1), SubSeq(s, i + 1, Len(s))>>

\* s.rsplit(sep, 1)
rsplit1(s, sep) ==
    LET i == rfind(s, sep)
    IN  IF i = 0 THEN <<s>>
        ELSE <<SubSeq(s, 1, i - 1), SubSeq(s, i + 1, Len(s))>>

startswith(s, p) == s # <<>> /\ Head(s) = p

endswith(s, suffix) ==
    /\ Len(s) >= Len(suffix)
    /\ SubSeq(s, Len(s) - Len(suffix) + 1, Len(s)) = suffix

\* sep.join(parts)
RECURSIVE join(_, _)
join(sep, parts) ==
    IF parts = <<>> THEN <<>>
    ELSE IF Len(parts) = 1 THEN parts[1]
    ELSE parts[1] \o sep \o join(sep, Tail(parts))

lowerToken(c) ==
    CASE c = "PDF" -> "pdf"
      [] c = "True" -> "true"
      [] c = "TRUE" -> "true"
      [] c = "False" -> "false"
      [] OTHER -> c

\* s.lower()
lower(s) == [i \in 1..Len(s) |-> lowerToken(s[i])]

-----------------------------------------------------------------------------
(* Configuration *)

ALLOWED_EXTENSIONS == {<<"pdf">>}
MAX_MEMORY_SIZE == 20

-----------------------------------------------------------------------------
(* Bounds and inputs *)

MaxObjects == 4        \* index and chain objects constructed in one run
MaxRequests == 4       \* requests handled by the app in one run
MaxStored == 3         \* uploads handled while one RAGHandler is exercised
MaxAppends == 25       \* turns appended to the MemoryManager in one run
MaxLines == 3          \* lines of a free-form reply handed to the parser
MaxFormatLines == 3    \* lines of a summary handed to the formatter

A_PDF == <<"a", ".", "pdf">>
B_PDF == <<"b", ".", "pdf">>
R_PDF == <<"R", ".", "PDF">>
N_TXT == <<"n", ".", "txt">>

\* the filenames a client submits; '' is the browser's "no file chosen"
UploadNames == {A_PDF, B_PDF, R_PDF, N_TXT, <<>>}

\* what PyPDFLoader does with a stored file: "text" loads pages, "nopages"
\* loads an empty list, "corrupt" raises
Kinds == {"text", "nopages", "corrupt"}

Sessions == {"s1", "s2"}

\* gunicorn worker processes, and request threads inside one process
Workers == {"w1", "w2"}
Threads == {"t1", "t2"}

-----------------------------------------------------------------------------
(* utils.py / app.py: the upload directory *)

\* filename.rsplit('.', 1)[1].lower() in ALLOWED_EXTENSIONS, after '.' in filename
allowed_file(filename) ==
    /\ find(filename, ".") # 0
    /\ lower(rsplit1(filename, ".")[2]) \in ALLOWED_EXTENSIONS

\* werkzeug's secure_filename: whitespace and path separators become "_",
\* characters outside [A-Za-z0-9_.-] are dropped, leading and trailing "." and
\* "_" are stripped
RECURSIVE strip_dots(_)
strip_dots(s) ==
    IF s # <<>> /\ Head(s) \in {".", "_"} THEN strip_dots(Tail(s))
    ELSE IF s # <<>> /\ s[Len(s)] \in {".", "_"} THEN strip_dots(SubSeq(s, 1, Len(s) - 1))
    ELSE s

secure_token(c) == c \notin {":", "\n", "*", "[", "]", "(", ")"}

secure_filename(filename) ==
    LET spaced == [i \in 1..Len(filename) |->
                      IF filename[i] \in {" ", "/"} THEN "_" ELSE filename[i]]
    IN  strip_dots(SelectSeq(spaced, secure_token))

\* os.listdir filtered by filename.endswith('.pdf'); listdir's order is
\* unspecified, so the listing is the set of names
get_available_files(store) ==
    {f \in DOMAIN store : endswith(f, <<".", "pdf">>)}

\* a check that finds every file
exists_anywhere(store, filename) == TRUE

\* os.path.exists(os.path.join(UPLOAD_FOLDER, filename))
exists_upload(store, filename) == filename \in DOMAIN store

-----------------------------------------------------------------------------
(* rag_handler.py / app.py: building the vector store *)

\* The body of get_vectorstore once no store is cached.  The outcome is the
\* value returned (None, or a fresh index object id) or the exception of
\* PyPDFLoader.load, which nothing in the loop catches.
build_vectorstore(store, id) ==
    LET pdf_files == get_available_files(store)
        documents == {f \in pdf_files : store[f] = "text"}
    IN  IF pdf_files = {} THEN [raised |-> FALSE, value |-> None]
        ELSE IF \E f \in pdf_files : store[f] = "corrupt"
             THEN [raised |-> TRUE, value |-> None]
        ELSE IF documents = {} THEN [raised |-> FALSE, value |-> None]
        ELSE [raised |-> FALSE,
              value |-> [id |-> id, files |-> pdf_files, sources |-> documents]]

\* get_vectorstore(): the cached store when there is one, else a build
get_vectorstore(cached, store, id) ==
    IF cached # None THEN [raised |-> FALSE, value |-> cached]
    ELSE build_vectorstore(store, id)

\* The chain built at "if rag_chain is None": the retriever is bound to the
\* index object it was created from, and the prompt holds the file list read
\* from the upload directory at that moment.
build_rag_chain(index, store, id) ==
    [id |-> id, retriever |-> index, files_context |-> get_available_files(store)]

-----------------------------------------------------------------------------
(* memory_manager.py / app.py: conversation memory *)

\* a plain list in place of the bounded deque: nothing is ever dropped
list_append(d, turn) == Append(d, turn)

\* deque(maxlen=MAX_MEMORY_SIZE).append(turn): a full deque drops its leftmost
deque_append(d, turn) ==
    IF Len(d) >= MAX_MEMORY_SIZE THEN Append(Tail(d), turn) ELSE Append(d, turn)

\* add_to_memory that records the turn in every session
add_to_all_sessions(memory, session_id, user_message, ai_response, now) ==
    LET turn == [user |-> user_message, ai |-> ai_response, timestamp |-> now]
    IN  [s \in Sessions |->
            deque_append(IF s \in DOMAIN memory THEN memory[s] ELSE <<>>, turn)]

add_to_memory(memory, session_id, user_message, ai_response, now) ==
    LET turn == [user |-> user_message, ai |-> ai_response, timestamp |-> now]
        old == IF session_id \in DOMAIN memory THEN memory[session_id] ELSE <<>>
    IN  [s \in DOMAIN memory \cup {session_id} |->
            IF s = session_id THEN deque_append(old, turn) ELSE memory[s]]

RECURSIVE render_turns(_)
render_turns(d) ==
    IF d = <<>> THEN <<>>
    ELSE <<"User: ">> \o Head(d).user \o <<"\n">>
         \o <<"AI: ">> \o Head(d).ai \o <<"\n", "\n">>
         \o render_turns(Tail(d))

\* get_conversation_context without the test for an unknown session
context_of_any_session(memory, session_id) ==
    <<"PREVIOUS CONVERSATION:", "\n">>
    \o render_turns(IF session_id \in DOMAIN memory THEN memory[session_id] ELSE <<>>)

get_conversation_context(memory, session_id) ==
    IF session_id \notin DOMAIN memory THEN <<>>
    ELSE <<"PREVIOUS CONVERSATION:", "\n">> \o render_turns(memory[session_id])

\* clear_memory that forgets every session
clear_every_session(memory, session_id) ==
    [s \in {} |-> <<>>]

clear_memory(memory, session_id) ==
    [s \in DOMAIN memory \ {session_id} |-> memory[s]]

-----------------------------------------------------------------------------
(* utils.py / app.py: the reply parser *)

\* a parser whose result starts with download_original set
OriginalByDefault ==
    [download_original |-> TRUE, download_summary |-> FALSE,
     filename |-> NoString, summary_content |-> NoString]

NoOperations ==
    [download_original |-> FALSE, download_summary |-> FALSE,
     filename |-> NoString, summary_content |-> NoString]

\* line.split(':', 1)[1] of a line that starts with a recognised prefix: the
\* first colon of such a line is the one that ends the prefix
after_colon(line) == Tail(line)

\* ....strip().lower() == 'true'
is_true(text) == lower(strip(text)) = <<"true">>

\* utils.py: one iteration of "for line in lines"; st.stop is the break
extract_step(raw, st) ==
    LET line == strip(raw)
    IN  IF startswith(line, "DOWNLOAD_ORIGINAL:")
        THEN [st EXCEPT !.operations.download_original = is_true(after_colon(line))]
        ELSE IF startswith(line, "DOWNLOAD_SUMMARY:")
        THEN [st EXCEPT !.operations.download_summary = is_true(after_colon(line))]
        ELSE IF startswith(line, "FILENAME:")
        THEN [st EXCEPT !.operations.filename = strip(after_colon(line))]
        ELSE IF startswith(line, "SUMMARY_CONTENT:")
        THEN LET content_after_colon == strip(after_colon(line))
             IN  [st EXCEPT !.current_section = "summary",
                            !.summary_lines =
                                IF content_after_colon # <<>>
                                THEN Append(@, content_after_colon) ELSE @]
        ELSE IF st.current_section = "summary" /\ line # <<>>
                /\ ~startswith(line, "ANSWER:")
        THEN [st EXCEPT !.summary_lines = Append(@, line)]
        ELSE IF startswith(line, "ANSWER:")
        THEN [st EXCEPT !.current_section = "answer", !.stop = TRUE]
        ELSE st

RECURSIVE extract_loop(_, _)
extract_loop(lines, st) ==
    IF lines = <<>> \/ st.stop THEN st
    ELSE extract_loop(Tail(lines), extract_step(Head(lines), st))

\* utils.py extract_file_operation
extract_file_operation(response_text) ==
    LET st == extract_loop(split(response_text, "\n"),
                           [operations |-> NoOperations, current_section |-> "None",
                            summary_lines |-> <<>>, stop |-> FALSE])
    IN  IF st.summary_lines # <<>>
        THEN [st.operations EXCEPT !.summary_content = join(<<"\n">>, st.summary_lines)]
        ELSE st.operations

\* app.py: one iteration of "for line in lines"; this loop has no break
app_extract_step(raw, st) ==
    LET line == strip(raw)
    IN  IF startswith(line, "DOWNLOAD_ORIGINAL:")
        THEN [st EXCEPT !.operations.download_original = is_true(after_colon(line))]
        ELSE IF startswith(line, "DOWNLOAD_SUMMARY:")
        THEN [st EXCEPT !.operations.download_summary = is_true(after_colon(line))]
        ELSE IF startswith(line, "FILENAME:")
        THEN [st EXCEPT !.operations.filename = strip(after_colon(line))]
        ELSE IF startswith(line, "SUMMARY_CONTENT:")
        THEN [st EXCEPT !.current_section = "summary",
                        !.operations.summary_content = strip(after_colon(line))]
        ELSE IF st.current_section = "summary" /\ line # <<>>
                /\ ~startswith(line, "ANSWER:")
        THEN [st EXCEPT !.operations.summary_content = @ \o <<" ">> \o line]
        ELSE IF startswith(line, "ANSWER:")
        THEN [st EXCEPT !.current_section = "answer"]
        ELSE st

RECURSIVE app_extract_loop(_, _)
app_extract_loop(lines, st) ==
    IF lines = <<>> THEN st
    ELSE app_extract_loop(Tail(lines), app_extract_step(Head(lines), st))

\* app.py extract_file_operation
app_extract_file_operation(response_text) ==
    app_extract_loop(split(response_text, "\n"),
                     [operations |-> NoOperations, current_section |-> "None"]).operations

\* the answer taken after the last 'ANSWER:' instead of the first
clean_answer_after_last(ai_response) ==
    LET answer_parts == rsplit1(ai_response, "ANSWER:")
    IN  IF Len(answer_parts) > 1 THEN strip(answer_parts[2]) ELSE ai_response

\* app.py ask_question: answer_parts = ai_response.split('ANSWER:', 1);
\* clean_answer = answer_parts[1].strip() if len(answer_parts) > 1 else ai_response
clean_answer(ai_response) ==
    LET answer_parts == split1(ai_response, "ANSWER:")
    IN  IF Len(answer_parts) > 1 THEN strip(answer_parts[2]) ELSE ai_response

\* download_links[...].split('/')[-1]
url_basename(url) == LET parts == split(url, "/") IN parts[Len(parts)]

format_response_with_links(answer, download_links) ==
    LET header == IF DOMAIN download_links # {}
                  THEN <<"\n", "\n", "**Download Links:**", "\n">> ELSE <<>>
        original == IF "original" \in DOMAIN download_links
                    THEN <<"[Download Original PDF: ">>
                         \o url_basename(download_links["original"])
                         \o <<"](">> \o download_links["original"] \o <<")", "\n">>
                    ELSE <<>>
        summary == IF "summary" \in DOMAIN download_links
                   THEN <<"[Download Summary PDF: ">>
                        \o url_basename(download_links["summary"])
                        \o <<"](">> \o download_links["summary"] \o <<")", "\n">>
                   ELSE <<>>
    IN  answer \o header \o original \o summary

-----------------------------------------------------------------------------
(* app.py: the request handlers of one worker process *)

ENTER_QUESTION == <<"Please enter a question.">>
UPLOAD_FIRST == <<"Please upload and process at least one PDF file first.">>
APOLOGY == <<"Sorry, an error occurred while processing your request.">>

Questions == {<<>>, <<"q">>}

\* replies of the generation model
PLAIN_REPLY == <<"x">>
ANSWER_REPLY == <<"ANSWER:", " ", "x">>
FULL_REPLY ==
    <<"DOWNLOAD_ORIGINAL:", " ", "true", "\n", "DOWNLOAD_SUMMARY:", " ", "true", "\n",
      "FILENAME:", " ">> \o A_PDF \o
    <<"\n", "SUMMARY_CONTENT:", " ", "s", "\n", "\n", "ANSWER:", " ", "x">>
ModelReplies == {PLAIN_REPLY, ANSWER_REPLY, FULL_REPLY}

\* POST /upload.  has_file is "'file' in request.files".
upload_file(has_file, name, kind) ==
    /\ requests < MaxRequests
    /\ requests' = requests + 1
    /\ IF ~has_file \/ name = <<>>
       THEN /\ last' = [request |-> [route |-> "upload", filename |-> name],
                        status |-> 302, flash |-> <<"No file selected">>,
                        saved |-> NoString]
            /\ UNCHANGED <<uploads, vectorstore, pre_upload>>
       ELSE IF allowed_file(name)
       THEN LET filename == secure_filename(name)
            IN  /\ uploads' = [f \in DOMAIN uploads \cup {filename} |->
                                  IF f = filename THEN kind ELSE uploads[f]]
                /\ vectorstore' = None
                /\ pre_upload' = objects
                /\ last' = [request |-> [route |-> "upload", filename |-> name],
                            status |-> 302,
                            flash |-> <<"File ">> \o filename \o <<" uploaded successfully!">>,
                            saved |-> filename]
       ELSE /\ last' = [request |-> [route |-> "upload", filename |-> name],
                        status |-> 302,
                        flash |-> <<"Please upload a PDF file">>, saved |-> NoString]
            /\ UNCHANGED <<uploads, vectorstore, pre_upload>>
    /\ UNCHANGED <<rag_chain, chat_memory, objects, llm_call, downloads>>
    /\ UNCHANGED <<handlerVars, memoryVars, parserVars, restVars>>

\* the part of ask_question inside "try:", after rag_chain.invoke returned
answer_body(session_id, ai_response, summary_fails) ==
    LET operations == app_extract_file_operation(ai_response)
        answer == clean_answer(ai_response)
        original == /\ operations.download_original
                    /\ Truthy(operations.filename)
                    /\ exists_upload(uploads, operations.filename)
        summary == /\ operations.download_summary
                   /\ Truthy(operations.filename)
                   /\ Truthy(operations.summary_content)
                   /\ ~summary_fails
        keys == (IF original THEN {"original"} ELSE {})
                  \cup (IF summary THEN {"summary"} ELSE {})
        download_links ==
            [k \in keys |->
                IF k = "original" THEN <<"/", "download", "/">> \o operations.filename
                ELSE <<"/", "download-summary", "/", "summary_">> \o operations.filename]
    IN  [response |-> format_response_with_links(answer, download_links),
         downloads |-> download_links,
         operations |-> operations,
         session_id |-> session_id,
         stored |-> answer,
         written |-> IF summary THEN {<<"summary_">> \o operations.filename} ELSE {}]

\* on_error without the memory update
on_error_unrecorded(memory, session_id, question, now) ==
    [memory |-> memory, body |-> [response |-> APOLOGY]]

\* the "except Exception" branch of ask_question
on_error(memory, session_id, question, now) ==
    [memory |-> add_to_memory(memory, session_id, question, APOLOGY, now),
     body |-> [response |-> APOLOGY]]

\* POST /ask.  model_raises, ai_response and summary_fails are what the
\* generation model and the PDF library do during this request.
ask_question(session_id, question, model_raises, ai_response, summary_fails) ==
    LET got == get_vectorstore(vectorstore, uploads, objects + 1)
        index == got.value
        n1 == IF vectorstore = None /\ index # None THEN objects + 1 ELSE objects
        chain == IF rag_chain = None THEN build_rag_chain(index, uploads, n1 + 1)
                 ELSE rag_chain
        n2 == IF rag_chain = None THEN n1 + 1 ELSE n1
        request == [route |-> "ask", session_id |-> session_id, question |-> question]
    IN  /\ requests < MaxRequests
        /\ requests' = requests + 1
        /\ UNCHANGED <<uploads, pre_upload, handlerVars, memoryVars, parserVars, restVars>>
        /\ IF question = <<>>
           THEN /\ last' = [request |-> request, status |-> 200,
                            body |-> [response |-> ENTER_QUESTION]]
                /\ UNCHANGED <<vectorstore, rag_chain, chat_memory, objects, llm_call,
                               downloads>>
           ELSE IF got.raised
           THEN \* the build is outside the try block: the request fails
                /\ last' = [request |-> request, status |-> 500, body |-> None]
                /\ UNCHANGED <<vectorstore, rag_chain, chat_memory, objects, llm_call,
                               downloads>>
           ELSE IF index = None
           THEN /\ last' = [request |-> request, status |-> 200,
                            body |-> [response |-> UPLOAD_FIRST]]
                /\ UNCHANGED <<vectorstore, rag_chain, chat_memory, objects, llm_call,
                               downloads>>
           ELSE /\ n2 <= MaxObjects
                /\ vectorstore' = index
                /\ rag_chain' = chain
                /\ objects' = n2
                /\ llm_call' = [chain |-> chain, input |-> question,
                                conversation_context |->
                                    get_conversation_context(chat_memory, session_id),
                                at |-> requests + 1, raised |-> model_raises,
                                answer |-> IF model_raises THEN <<>> ELSE ai_response]
                /\ IF model_raises
                   THEN LET handled == on_error(chat_memory, session_id, question,
                                                requests + 1)
                        IN  /\ chat_memory' = handled.memory
                            /\ last' = [request |-> request, status |-> 200,
                                        body |-> handled.body]
                            /\ UNCHANGED downloads
                   ELSE LET body == answer_body(session_id, ai_response, summary_fails)
                        IN  /\ chat_memory' = add_to_memory(chat_memory, session_id,
                                                  question, body.stored, requests + 1)
                            /\ downloads' = downloads \cup body.written
                            /\ last' = [request |-> request, status |-> 200,
                                        body |-> [response |-> body.response,
                                                  downloads |-> body.downloads,
                                                  operations |-> body.operations,
                                                  session_id |-> body.session_id]]

\* POST /clear-memory
app_clear_memory(session_id) ==
    /\ requests < MaxRequests
    /\ requests' = requests + 1
    /\ chat_memory' = clear_memory(chat_memory, session_id)
    /\ last' = [request |-> [route |-> "clear-memory", session_id |-> session_id],
                status |-> 200, body |-> [status |-> <<"Memory cleared successfully">>]]
    /\ UNCHANGED <<uploads, vectorstore, rag_chain, objects, llm_call, downloads,
                   pre_upload, handlerVars, memoryVars, parserVars, restVars>>

UploadFile == \E has_file \in BOOLEAN, name \in UploadNames, kind \in Kinds :
                  /\ ~has_file => name = <<>>
                  /\ upload_file(has_file, name, kind)

AskQuestion == \E session_id \in Sessions, question \in Questions,
                  model_raises \in BOOLEAN, ai_response \in ModelReplies,
                  summary_fails \in BOOLEAN :
                  ask_question(session_id, question, model_raises, ai_response,
                               summary_fails)

ClearMemory == \E session_id \in Sessions : app_clear_memory(session_id)

-----------------------------------------------------------------------------
(* rag_handler.py: class RAGHandler *)

EMBEDDINGS == [cls |-> "HuggingFaceEmbeddings"]
LLM == [cls |-> "ChatDeepSeek"]

\* The outcome of a method: the instance afterwards, the exception raised ("" for
\* none), the value returned, and whether the upload directory was listed.
Outcome(h, raised, value, scanned) ==
    [h |-> h, raised |-> raised, value |-> value, scanned |-> scanned]

\* reset_vectorstore that drops the index and keeps the chain
reset_keeps_chain(h) ==
    [h EXCEPT !.vectorstore = None]

RAGHandler_reset_vectorstore(h) ==
    [h EXCEPT !.vectorstore = None, !.rag_chain = None]

\* get_vectorstore that rebuilds whenever the listing differs from the cached one
get_vectorstore_relisting(h, store, id) ==
    IF h.vectorstore # None /\ h.vectorstore.files = get_available_files(store)
    THEN Outcome(h, "", h.vectorstore, TRUE)
    ELSE LET built == build_vectorstore(store, id)
         IN  IF built.raised THEN Outcome(h, "PdfReadError", None, TRUE)
             ELSE IF built.value = None THEN Outcome(h, "", None, TRUE)
             ELSE Outcome([h EXCEPT !.embeddings = EMBEDDINGS,
                                    !.vectorstore = built.value],
                          "", built.value, TRUE)

RAGHandler_get_vectorstore(h, store, id) ==
    IF h.vectorstore # None THEN Outcome(h, "", h.vectorstore, FALSE)
    ELSE LET built == build_vectorstore(store, id)
         IN  IF built.raised THEN Outcome(h, "PdfReadError", None, TRUE)
             ELSE IF built.value = None THEN Outcome(h, "", None, TRUE)
             ELSE Outcome([h EXCEPT !.embeddings = EMBEDDINGS,
                                    !.vectorstore = built.value],
                          "", built.value, TRUE)

RAGHandler_create_rag_chain(h, store, id) ==
    IF h.rag_chain # None THEN Outcome(h, "", h.rag_chain, FALSE)
    ELSE IF h.vectorstore = None
    THEN \* None.as_retriever()
         Outcome([h EXCEPT !.llm = LLM], "AttributeError", None, FALSE)
    ELSE LET chain == build_rag_chain(h.vectorstore, store, id)
         IN  Outcome([h EXCEPT !.llm = LLM, !.rag_chain = chain], "", chain, TRUE)

\* initialize that reports success once the index is there, without the chain
initialize_without_chain(h, store, made) ==
    LET got == RAGHandler_get_vectorstore(h, store, made + 1)
    IN  IF got.raised # "" THEN got
        ELSE IF got.value = None THEN Outcome(got.h, "", PyBool(FALSE), got.scanned)
        ELSE Outcome(got.h, "", PyBool(TRUE), got.scanned)

\* initialize(); made is the number of objects constructed before the call
RAGHandler_initialize(h, store, made) ==
    LET got == RAGHandler_get_vectorstore(h, store, made + 1)
        n == IF got.h.vectorstore # h.vectorstore THEN made + 1 ELSE made
        chained == RAGHandler_create_rag_chain(got.h, store, n + 1)
    IN  IF got.raised # "" THEN got
        ELSE IF got.value = None THEN Outcome(got.h, "", PyBool(FALSE), got.scanned)
        ELSE Outcome(chained.h, chained.raised, PyBool(TRUE),
                     got.scanned \/ chained.scanned)

\* the highest object id held by the instance, to number the next object
held(h) ==
    LET ids == {0} \cup (IF h.vectorstore # None THEN {h.vectorstore.id} ELSE {})
                   \cup (IF h.rag_chain # None THEN {h.rag_chain.id} ELSE {})
    IN  CHOOSE n \in ids : \A m \in ids : m <= n

\* The record of a call.  ready is history: initialize has returned True since
\* the most recent reset_vectorstore.
Call(op, out, h, store) ==
    [op |-> op, raised |-> out.raised, value |-> out.value, scanned |-> out.scanned,
     store |-> store, before |-> h, after |-> out.h,
     ready |-> IF op = "reset_vectorstore" THEN FALSE
               ELSE IF op = "initialize" /\ out.raised = "" /\ out.value = PyBool(TRUE)
               THEN TRUE
               ELSE h_call.ready]

reset_vectorstore ==
    LET out == Outcome(RAGHandler_reset_vectorstore(handler), "", None, FALSE)
    IN  /\ handler' = out.h
        /\ h_call' = Call("reset_vectorstore", out, handler, uploads)
        /\ UNCHANGED <<uploads, objects, llm_call>>

initialize ==
    LET out == RAGHandler_initialize(handler, uploads, objects)
        made == IF held(out.h) > objects THEN held(out.h) ELSE objects
    IN  /\ made <= MaxObjects
        /\ handler' = out.h
        /\ objects' = made
        /\ h_call' = Call("initialize", out, handler, uploads)
        /\ UNCHANGED <<uploads, llm_call>>

\* get_response(question, conversation_context)
get_response(question, model_raises, ai_response) ==
    /\ IF handler.rag_chain = None
       THEN /\ h_call' = Call("get_response", Outcome(handler, "ValueError", None, FALSE),
                              handler, uploads)
            /\ UNCHANGED llm_call
       ELSE /\ llm_call' = [chain |-> handler.rag_chain, input |-> question,
                            conversation_context |-> <<>>, at |-> 0,
                            raised |-> model_raises,
                            answer |-> IF model_raises THEN <<>> ELSE ai_response]
            /\ h_call' = Call("get_response",
                              IF model_raises
                              THEN Outcome(handler, "APIError", None, FALSE)
                              ELSE Outcome(handler, "", PyStr(ai_response), FALSE),
                              handler, uploads)
    /\ UNCHANGED <<handler, uploads, objects>>

ResetVectorstore ==
    /\ reset_vectorstore
    /\ UNCHANGED <<vectorstore, rag_chain, chat_memory, last, pre_upload, requests,
                   downloads, memoryVars, parserVars, restVars>>

Initialize ==
    /\ initialize
    /\ UNCHANGED <<vectorstore, rag_chain, chat_memory, last, pre_upload, requests,
                   downloads, memoryVars, parserVars, restVars>>

GetResponse ==
    /\ \E model_raises \in BOOLEAN :
           get_response(<<"q">>, model_raises, ANSWER_REPLY)
    /\ UNCHANGED <<vectorstore, rag_chain, chat_memory, last, pre_upload, requests,
                   downloads, memoryVars, parserVars, restVars>>

-----------------------------------------------------------------------------
(* memory_manager.py: class MemoryManager *)

\* the n-th message a session sends and the answer it is given
UserMessage(n) == <<"q", ToString(n)>>
AiResponse(n) == <<"a", ToString(n)>>

MemoryCall(op, session_id, value) == [op |-> op, session_id |-> session_id, value |-> value]

MemoryManager_add_to_memory(session_id) ==
    LET n == sent[session_id].n + 1
    IN  /\ sent["s1"].n + sent["s2"].n < MaxAppends
        /\ memory_manager' = add_to_memory(memory_manager, session_id,
                                           UserMessage(n), AiResponse(n), n)
        /\ sent' = [sent EXCEPT ![session_id].n = n]
        /\ m_call' = MemoryCall("add_to_memory", session_id, <<>>)

MemoryManager_get_conversation_context(session_id) ==
    /\ m_call' = MemoryCall("get_conversation_context", session_id,
                            get_conversation_context(memory_manager, session_id))
    /\ UNCHANGED <<memory_manager, sent>>

MemoryManager_clear_memory(session_id) ==
    /\ memory_manager' = clear_memory(memory_manager, session_id)
    /\ sent' = [sent EXCEPT ![session_id].base = sent[session_id].n]
    /\ m_call' = MemoryCall("clear_memory", session_id, <<>>)

AddToMemory ==
    /\ \E session_id \in Sessions : MemoryManager_add_to_memory(session_id)
    /\ UNCHANGED <<uploads, appVars, handlerVars, parserVars, restVars>>

GetConversationContext ==
    /\ \E session_id \in Sessions : MemoryManager_get_conversation_context(session_id)
    /\ UNCHANGED <<uploads, appVars, handlerVars, parserVars, restVars>>

ClearSessionMemory ==
    /\ \E session_id \in Sessions : MemoryManager_clear_memory(session_id)
    /\ UNCHANGED <<uploads, appVars, handlerVars, parserVars, restVars>>

-----------------------------------------------------------------------------
(* the replies handed to the parser *)

\* the layout the prompt asks the model for, filled with the given values
Compose(given) ==
    <<"DOWNLOAD_ORIGINAL:", " ">> \o given.download_original \o <<"\n">>
    \o <<"DOWNLOAD_SUMMARY:", " ">> \o given.download_summary \o <<"\n">>
    \o <<"FILENAME:", " ">> \o given.filename \o <<"\n">>
    \o <<"SUMMARY_CONTENT:", " ">> \o given.summary_content \o <<"\n", "\n">>
    \o <<"ANSWER:", " ">> \o given.answer

BoolTexts == {<<"true">>, <<"false">>, <<"True">>}
FilenameTexts == {A_PDF, <<>>, <<"ANSWER:", ".", "pdf">>}
SummaryTexts ==
    {<<"s">>, <<>>,
     <<"s", "\n", "t">>,
     <<"s", "\n", "\n", "t">>,
     <<"s", "\n", " ", "t">>,
     <<"see", " ", "ANSWER:", " ", "t">>,
     <<"s", "\n", "FILENAME:", " ", "b">>}
AnswerTexts ==
    {<<"x">>, <<"x", "\n", "ANSWER:", " ", "y">>,
     <<"x", "\n", "FILENAME:", " ", "b">>}

Givens ==
    [download_original : BoolTexts, download_summary : BoolTexts,
     filename : FilenameTexts, summary_content : SummaryTexts, answer : AnswerTexts]

\* free-form replies: up to MaxLines lines drawn from ReplyLines
ReplyLines ==
    {<<"SUMMARY_CONTENT:", " ", "s">>, <<"t">>, <<>>, <<" ", "u">>,
     <<"FILENAME:", " ", "b">>, <<"DOWNLOAD_SUMMARY:", " ", "TRUE">>,
     <<"ANSWER:", " ", "x">>}

RECURSIVE LineSeqs(_)
LineSeqs(n) ==
    IF n = 0 THEN {<<>>}
    ELSE LET shorter == LineSeqs(n - 1)
         IN  shorter \cup {Append(ls, l) : ls \in {x \in shorter : Len(x) = n - 1},
                                           l \in ReplyLines}

FreeReplies == {join(<<"\n">>, ls) : ls \in LineSeqs(MaxLines) \ {<<>>}}

NoGiven == [free |-> TRUE]

\* the caller of utils.extract_file_operation, with ask_question's answer extraction
parse_reply ==
    /\ parsed = None
    /\ parsed' = [by |-> "utils", operations |-> extract_file_operation(reply.text),
                  answer |-> clean_answer(reply.text)]
    /\ UNCHANGED reply

\* app.py's own extract_file_operation, with ask_question's answer extraction
app_parse_reply ==
    /\ parsed = None
    /\ parsed' = [by |-> "app", operations |-> app_extract_file_operation(reply.text),
                  answer |-> clean_answer(reply.text)]
    /\ UNCHANGED reply

ParseReply ==
    /\ parse_reply
    /\ UNCHANGED <<uploads, appVars, handlerVars, memoryVars, restVars>>

AppParseReply ==
    /\ app_parse_reply
    /\ UNCHANGED <<uploads, appVars, handlerVars, memoryVars, restVars>>

-----------------------------------------------------------------------------
(* pdf_formatter.py: the summary formatter.  Here every token is one       *)
(* character, except the emphasis markers "**" and "__"; the characters    *)
(* U+2022, U+25CB and U+25BA are written "<bullet>", "<circle>", "<arrow>". *)

Digits == {"0", "1", "2", "3", "4", "5", "6", "7", "8", "9"}
UpperCase == {"A", "B", "C", "D", "E", "F", "G", "H", "I", "J", "K", "L", "M",
              "N", "O", "P", "Q", "R", "S", "T", "U", "V", "W", "X", "Y", "Z"}
LowerCase == {"a", "b", "c", "d", "e", "f", "g", "h", "i", "j", "k", "l", "m",
              "n", "o", "p", "q", "r", "s", "t", "u", "v", "w", "x", "y", "z"}

IsDigit(c) == c \in Digits
IsUpper(c) == c \in UpperCase
IsLower(c) == c \in LowerCase
IsLowerOrSpace(c) == IsLower(c) \/ IsSpace(c)
IsUpperOrSpace(c) == IsUpper(c) \/ IsSpace(c)
IsHash(c) == c = "#"
IsWord(c) == c \in Digits \cup UpperCase \cup LowerCase \cup {"_", "__"}

\* s[i], or '' past either end
At(s, i) == IF i \in 1..Len(s) THEN s[i] ELSE ""

\* the length of the longest run of tokens that satisfy Test, from index i on
Run(s, i, Test(_)) ==
    LET stops == {j \in i..Len(s) : ~Test(s[j])}
    IN  IF i > Len(s) THEN 0
        ELSE IF stops = {} THEN Len(s) - i + 1
        ELSE (CHOOSE j \in stops : \A k \in stops : j <= k) - i

\* s with its first n tokens removed
Drop(s, n) == SubSeq(s, n + 1, Len(s))

\* the length matched at the start of s by open? \d+ close \s{min_space,},
\* 0 when there is no match
MatchNumber(s, open, close, min_space) ==
    LET o == IF open = "" THEN 0 ELSE 1
        n == Run(s, o + 1, IsDigit)
        w == Run(s, o + n + 2, IsSpace)
    IN  IF /\ (open = "" \/ At(s, 1) = open)
           /\ n >= 1
           /\ At(s, o + n + 1) = close
           /\ w >= min_space
        THEN o + n + 1 + w
        ELSE 0

\* ^[A-Z][A-Z\s]{3,}$
AllCaps(u) == Len(u) >= 4 /\ IsUpper(u[1]) /\ Run(u, 2, IsUpperOrSpace) = Len(u) - 1

\* len(line.split())
Words(line) ==
    Cardinality({i \in 1..Len(line) :
                    ~IsSpace(line[i]) /\ (i = 1 \/ IsSpace(line[i - 1]))})

is_main_heading(line) ==
    LET hashes == Run(line, 1, IsHash)
        numbered == MatchNumber(line, "", ".", 1)
        r == rstrip(line)
    IN  \/ hashes >= 1 /\ Run(line, hashes + 1, IsSpace) >= 1
        \/ AllCaps(line)
        \/ r # <<>> /\ r[Len(r)] = ":" /\ AllCaps(SubSeq(r, 1, Len(r) - 1))
        \/ numbered > 0 /\ IsUpper(At(line, numbered + 1))
        \/ /\ Len(line) >= 3
           /\ IsUpper(line[1])
           /\ line[Len(line)] = ":"
           /\ Run(line, 2, IsLowerOrSpace) = Len(line) - 2
        \/ Len(line) < 50 /\ Words(line) <= 6 /\ IsUpper(At(line, 1))

is_subheading(line) ==
    LET hashes == Run(line, 1, IsHash)
        n == Run(line, 1, IsDigit)
        m == Run(line, n + 2, IsDigit)
        a == Run(line, 2, IsLower)
        w == Run(line, 2 + a, IsSpace)
        b == Run(line, 3 + a + w, IsLower)
    IN  \/ hashes >= 2 /\ Run(line, hashes + 1, IsSpace) >= 1
        \/ /\ n >= 1
           /\ At(line, n + 1) = "."
           /\ m >= 1
           /\ Run(line, n + m + 2, IsSpace) >= 1
        \/ /\ IsUpper(At(line, 1))
           /\ a >= 1
           /\ w >= 1
           /\ IsUpper(At(line, 2 + a + w))
           /\ b >= 1
           /\ At(line, 3 + a + w + b) = ":"
           /\ Len(line) = 3 + a + w + b

is_bullet_point(line) ==
    LET lead == Run(line, 1, IsSpace)
    IN  \/ At(line, lead + 1) \in {"-", "<bullet>", "*"} /\ Run(line, lead + 2, IsSpace) >= 1
        \/ At(line, 1) \in {"<circle>", "<arrow>"} /\ Run(line, 2, IsSpace) >= 1

is_numbered_point(line) ==
    \/ MatchNumber(line, "", ".", 1) > 0
    \/ MatchNumber(line, "", ")", 1) > 0
    \/ MatchNumber(line, "(", ")", 1) > 0

\* re.sub(r'\s+', ' ', line)
RECURSIVE CollapseSpaces(_)
CollapseSpaces(s) ==
    IF s = <<>> THEN <<>>
    ELSE IF IsSpace(Head(s)) THEN <<" ">> \o CollapseSpaces(Drop(s, Run(s, 1, IsSpace)))
    ELSE <<Head(s)>> \o CollapseSpaces(Tail(s))

clean_heading_text(line) ==
    LET hashes == Run(line, 1, IsHash)
        unmarked == IF hashes >= 1
                    THEN Drop(line, hashes + Run(line, hashes + 1, IsSpace)) ELSE line
        uncolon == IF unmarked # <<>> /\ unmarked[Len(unmarked)] = ":"
                   THEN SubSeq(unmarked, 1, Len(unmarked) - 1) ELSE unmarked
    IN  strip(CollapseSpaces(uncolon))

BulletMarks == {"-", "<bullet>", "*", "<circle>", "<arrow>"}

clean_bullet_text(line) ==
    LET first == IF At(line, 1) \in BulletMarks
                 THEN Drop(line, 1 + Run(line, 2, IsSpace)) ELSE line
        lead == Run(first, 1, IsSpace)
        second == IF At(first, lead + 1) \in BulletMarks
                  THEN Drop(first, lead + 1 + Run(first, lead + 2, IsSpace)) ELSE first
    IN  strip(second)

clean_numbered_text(line) ==
    LET dotted == Drop(line, MatchNumber(line, "", ".", 0))
        closed == Drop(dotted, MatchNumber(dotted, "", ")", 0))
        wrapped == Drop(closed, MatchNumber(closed, "(", ")", 0))
    IN  strip(wrapped)

\* re.sub of marker(.*?)marker by open \1 close
RECURSIVE sub_pairs(_, _, _, _)
sub_pairs(text, marker, open, close) ==
    LET i == find(text, marker)
        j == IF i = 0 THEN 0 ELSE find(Drop(text, i), marker)
    IN  IF i = 0 \/ j = 0 THEN text
        ELSE SubSeq(text, 1, i - 1) \o <<open>> \o SubSeq(text, i + 1, i + j - 1)
             \o <<close>> \o sub_pairs(Drop(text, i + j), marker, open, close)

\* re.sub(r'(?<![\w])_(.*?)_(?![\w])', r'<i>\1</i>', text)
RECURSIVE sub_underscores(_)
sub_underscores(text) ==
    LET closes(i) == {j \in (i + 1)..Len(text) :
                         text[j] = "_" /\ ~IsWord(At(text, j + 1))}
        opens == {i \in 1..Len(text) :
                     text[i] = "_" /\ ~IsWord(At(text, i - 1)) /\ closes(i) # {}}
    IN  IF opens = {} THEN text
        ELSE LET i == CHOOSE x \in opens : \A y \in opens : x <= y
                 j == CHOOSE x \in closes(i) : \A y \in closes(i) : x <= y
             IN  SubSeq(text, 1, i - 1) \o <<"<i>">> \o SubSeq(text, i + 1, j - 1)
                 \o <<"</i>">> \o sub_underscores(Drop(text, j))

format_inline_text(text) ==
    sub_underscores(
        sub_pairs(sub_pairs(sub_pairs(text, "**", "<b>", "</b>"), "*", "<i>", "</i>"),
                  "__", "<b>", "</b>"))

\* reportlab flowables; NoStory stands for "nothing formatted yet", a list
\* that is no story the formatter returns
NoStory == <<[cls |-> "None"]>>
Spacer == [cls |-> "Spacer", width |-> 1, height |-> 6]
Paragraph(text, style) == [cls |-> "Paragraph", text |-> text, style |-> style]

\* one iteration of "for line in lines" of format_content_for_pdf
format_step(raw, st) ==
    LET line == strip(raw)
    IN  IF line = <<>>
        THEN IF st.story # <<>> /\ st.story[Len(st.story)].cls # "Spacer"
             THEN [st EXCEPT !.story = Append(@, Spacer)]
             ELSE st
        ELSE IF is_main_heading(line)
        THEN [story |-> Append(st.story, Paragraph(clean_heading_text(line), "CustomHeading")),
              current_list_type |-> "None", list_counter |-> 0]
        ELSE IF is_subheading(line)
        THEN [story |-> Append(st.story,
                               Paragraph(clean_heading_text(line), "CustomSubheading")),
              current_list_type |-> "None", list_counter |-> 0]
        ELSE IF is_bullet_point(line)
        THEN [story |-> Append(st.story,
                               Paragraph(<<"<bullet>", " ">> \o clean_bullet_text(line),
                                         "CustomBullet")),
              current_list_type |-> "bullet", list_counter |-> st.list_counter]
        ELSE IF is_numbered_point(line)
        THEN LET list_counter == (IF st.current_list_type # "numbered" THEN 0
                                  ELSE st.list_counter) + 1
             IN  [story |-> Append(st.story,
                                   Paragraph(<<ToString(list_counter), ".", " ">>
                                             \o clean_numbered_text(line),
                                             "CustomNumbered")),
                  current_list_type |-> "numbered", list_counter |-> list_counter]
        ELSE [story |-> Append(st.story, Paragraph(format_inline_text(line), "CustomNormal")),
              current_list_type |-> "None", list_counter |-> 0]

RECURSIVE format_loop(_, _)
format_loop(lines, st) ==
    IF lines = <<>> THEN st
    ELSE format_loop(Tail(lines), format_step(Head(lines), st))

format_content_for_pdf(text) ==
    format_loop(split(text, "\n"),
                [story |-> <<>>, current_list_type |-> "None", list_counter |-> 0]).story

\* the lines of the summaries handed to the formatter
FormatLines ==
    {<<"1", ".", " ", "a">>, <<"7", ".", " ", "b">>, <<"2", ")", " ", "c">>,
     <<>>, <<"p", " ", "**", "q", "**">>, <<"#", " ", "H">>, <<"-", " ", "d">>,
     <<"3", ".", " ", "I", "n", "t", "r", "o">>}

RECURSIVE FormatLineSeqs(_)
FormatLineSeqs(n) ==
    IF n = 0 THEN {<<>>}
    ELSE LET shorter == FormatLineSeqs(n - 1)
         IN  shorter \cup {Append(ls, l) : ls \in {x \in shorter : Len(x) = n - 1},
                                           l \in FormatLines}

FormatContents == {join(<<"\n">>, ls) : ls \in FormatLineSeqs(MaxFormatLines) \ {<<>>}}

FormatContent ==
    /\ story = NoStory
    /\ story' = format_content_for_pdf(content)
    /\ UNCHANGED <<uploads, appVars, handlerVars, memoryVars, parserVars, content,
                   workerVars, threadVars>>

-----------------------------------------------------------------------------
(* gunicorn.conf.py: several worker processes, each with its own copy of  *)
(* the module globals of app.py, over one upload directory                *)

\* the module globals of the worker that is handling requests
process_globals ==
    [vectorstore |-> vectorstore, rag_chain |-> rag_chain, chat_memory |-> chat_memory]

\* worker processes that share the index of the process that ran last
resume_sharing_index(own, running) ==
    [own EXCEPT !.vectorstore = running.vectorstore]

\* The globals a worker process finds when the next request is handed to it:
\* its own, as it left them; running are those of the worker that ran last.
resume(own, running) == own

\* the master hands the next request to worker w (worker_class = "sync": a
\* worker handles one request at a time)
dispatch(w) ==
    LET mine == resume(idle[w], process_globals)
    IN  /\ w \in DOMAIN idle
        /\ vectorstore' = mine.vectorstore
        /\ rag_chain' = mine.rag_chain
        /\ chat_memory' = mine.chat_memory
        /\ idle' = [v \in (DOMAIN idle \ {w}) \cup {worker} |->
                       IF v = worker THEN process_globals ELSE idle[v]]
        /\ worker' = w
        /\ UNCHANGED <<uploads, downloads, objects, llm_call, last, pre_upload, requests,
                       handlerVars, memoryVars, parserVars, formatterVars, threadVars>>

Dispatch == \E w \in Workers \ {worker} : dispatch(w)

\* the requests the workers are given
RoutedUpload == \E name \in {A_PDF, B_PDF} : upload_file(TRUE, name, "text")

RoutedAsk == \E session_id \in Sessions :
                 ask_question(session_id, <<"q">>, FALSE, ANSWER_REPLY, FALSE)

RoutedClear == app_clear_memory("s1")

-----------------------------------------------------------------------------
(* app.py served by request threads of one process: the handlers as the   *)
(* sequence of reads and writes of the module globals they perform, a     *)
(* thread switch being possible between any two of them                   *)

\* a thread that is handling no request
IdleThread == [pc |-> "idle", request |-> None, kind |-> "", ret |-> None]

\* the frame of every thread step
threadFrame == <<pre_upload, handlerVars, memoryVars, parserVars, formatterVars, workerVars>>

\* thread t goes on at pc with its locals changed to loc
Goto(t, pc, ret) == threads' = [threads EXCEPT ![t].pc = pc, ![t].ret = ret]

\* thread t returns (or fails with) the response and is free again
Respond(t, status, body) ==
    /\ threads' = [threads EXCEPT ![t] = IdleThread]
    /\ last' = [request |-> threads[t].request, status |-> status, body |-> body]

\* a request arrives and is given to the free thread t
begin(t, request, kind) ==
    /\ threads[t].pc = "idle"
    /\ requests < MaxRequests
    /\ requests' = requests + 1
    /\ threads' = [threads EXCEPT ![t] =
                       [pc |-> IF request.route = "upload" THEN "upload_save" ELSE "ask_test",
                        request |-> request, kind |-> kind, ret |-> None]]
    /\ UNCHANGED <<uploads, downloads, vectorstore, rag_chain, chat_memory, objects,
                   llm_call, last, deref, threadFrame>>

\* upload_file up to file.save(file_path)
upload_save(t) ==
    LET name == threads[t].request.filename
        filename == secure_filename(name)
    IN  /\ threads[t].pc = "upload_save"
        /\ IF allowed_file(name)
           THEN /\ uploads' = [f \in DOMAIN uploads \cup {filename} |->
                                  IF f = filename THEN threads[t].kind ELSE uploads[f]]
                /\ Goto(t, "upload_reset", None)
                /\ UNCHANGED last
           ELSE /\ Respond(t, 302, [flash |-> <<"Please upload a PDF file">>])
                /\ UNCHANGED uploads
        /\ UNCHANGED <<downloads, vectorstore, rag_chain, chat_memory, objects, llm_call,
                       requests, deref, threadFrame>>

\* upload_file: vectorstore = None, and the redirect
upload_reset(t) ==
    /\ threads[t].pc = "upload_reset"
    /\ vectorstore' = None
    /\ Respond(t, 302, [flash |-> <<"File ">> \o secure_filename(threads[t].request.filename)
                                  \o <<" uploaded successfully!">>])
    /\ UNCHANGED <<uploads, downloads, rag_chain, chat_memory, objects, llm_call,
                   requests, deref, threadFrame>>

\* ask_question: "if vectorstore is None:"
ask_test(t) ==
    /\ threads[t].pc = "ask_test"
    /\ Goto(t, IF vectorstore = None THEN "ask_get" ELSE "ask_check", None)
    /\ UNCHANGED <<uploads, downloads, vectorstore, rag_chain, chat_memory, objects,
                   llm_call, last, requests, deref, threadFrame>>

\* get_vectorstore, called from ask_question: the cached store when the global
\* holds one by now; else the build from the directory as it is, which assigns
\* the global inside get_vectorstore; ret is the value returned
ask_get(t) ==
    LET built == build_vectorstore(uploads, objects + 1)
    IN  /\ threads[t].pc = "ask_get"
        /\ IF vectorstore # None
           THEN /\ Goto(t, "ask_assign", vectorstore)
                /\ UNCHANGED <<vectorstore, objects, last>>
           ELSE IF built.raised
           THEN /\ Respond(t, 500, None)
                /\ UNCHANGED <<vectorstore, objects>>
           ELSE IF built.value = None
           THEN /\ Goto(t, "ask_assign", None)
                /\ UNCHANGED <<vectorstore, objects, last>>
           ELSE /\ objects < MaxObjects
                /\ vectorstore' = built.value
                /\ objects' = objects + 1
                /\ Goto(t, "ask_assign", built.value)
                /\ UNCHANGED last
        /\ UNCHANGED <<uploads, downloads, rag_chain, chat_memory, llm_call, requests,
                       deref, threadFrame>>

\* ask_question: "vectorstore = get_vectorstore()", the assignment
ask_assign(t) ==
    /\ threads[t].pc = "ask_assign"
    /\ vectorstore' = threads[t].ret
    /\ Goto(t, "ask_check", None)
    /\ UNCHANGED <<uploads, downloads, rag_chain, chat_memory, objects, llm_call, last,
                   requests, deref, threadFrame>>

\* ask_question: the second "if vectorstore is None:"
ask_check(t) ==
    /\ threads[t].pc = "ask_check"
    /\ IF vectorstore = None
       THEN Respond(t, 200, [response |-> UPLOAD_FIRST])
       ELSE Goto(t, "ask_chain", None) /\ UNCHANGED last
    /\ UNCHANGED <<uploads, downloads, vectorstore, rag_chain, chat_memory, objects,
                   llm_call, requests, deref, threadFrame>>

\* ask_question: "if rag_chain is None:" with vectorstore.as_retriever(), which
\* reads the global again; on None the AttributeError is outside the try block
ask_chain(t) ==
    /\ threads[t].pc = "ask_chain"
    /\ IF rag_chain # None
       THEN /\ Goto(t, "ask_invoke", None)
            /\ UNCHANGED <<rag_chain, objects, last, deref>>
       ELSE /\ deref' = [at |-> "as_retriever", index |-> vectorstore]
            /\ IF vectorstore = None
               THEN /\ Respond(t, 500, None)
                    /\ UNCHANGED <<rag_chain, objects>>
               ELSE /\ objects < MaxObjects
                    /\ rag_chain' = build_rag_chain(vectorstore, uploads, objects + 1)
                    /\ objects' = objects + 1
                    /\ Goto(t, "ask_invoke", None)
                    /\ UNCHANGED last
    /\ UNCHANGED <<uploads, downloads, vectorstore, chat_memory, llm_call, requests,
                   threadFrame>>

\* ask_question from get_conversation_context on: the try block and its handler
ask_invoke(t, model_raises, ai_response, summary_fails) ==
    LET request == threads[t].request
        session_id == request.session_id
        body == answer_body(session_id, ai_response, summary_fails)
        handled == on_error(chat_memory, session_id, request.question, requests)
    IN  /\ threads[t].pc = "ask_invoke"
        /\ deref' = [at |-> "invoke", index |-> vectorstore]
        /\ llm_call' = [chain |-> rag_chain, input |-> request.question,
                        conversation_context |->
                            get_conversation_context(chat_memory, session_id),
                        at |-> requests, raised |-> model_raises,
                        answer |-> IF model_raises THEN <<>> ELSE ai_response]
        /\ IF model_raises
           THEN /\ chat_memory' = handled.memory
                /\ Respond(t, 200, handled.body)
                /\ UNCHANGED downloads
           ELSE /\ chat_memory' = add_to_memory(chat_memory, session_id, request.question,
                                                body.stored, requests)
                /\ downloads' = downloads \cup body.written
                /\ Respond(t, 200, [response |-> body.response,
                                     downloads |-> body.downloads,
                                     operations |-> body.operations,
                                     session_id |-> body.session_id])
        /\ UNCHANGED <<uploads, vectorstore, rag_chain, objects, requests, threadFrame>>

Begin ==
    \E t \in Threads :
        \/ \E name \in {A_PDF, N_TXT} :
               begin(t, [route |-> "upload", filename |-> name], "text")
        \/ begin(t, [route |-> "ask", session_id |-> "s1", question |-> <<"q">>], "text")

UploadSave == \E t \in Threads : upload_save(t)
UploadReset == \E t \in Threads : upload_reset(t)
AskTest == \E t \in Threads : ask_test(t)
AskGet == \E t \in Threads : ask_get(t)
AskAssign == \E t \in Threads : ask_assign(t)
AskCheck == \E t \in Threads : ask_check(t)
AskChain == \E t \in Threads : ask_chain(t)
AskInvoke == \E t \in Threads, model_raises \in BOOLEAN :
                 ask_invoke(t, model_raises, ANSWER_REPLY, FALSE)

-----------------------------------------------------------------------------
\* the module globals of a worker that has handled no request yet
NoGlobals == [vectorstore |-> None, rag_chain |-> None, chat_memory |-> <<>>]

\* no use of the global vectorstore recorded yet
NoUse == [at |-> "none", index |-> None]

NoCall == [op |-> "none", ready |-> FALSE]

Init ==
    /\ uploads = <<>>
    /\ downloads = {}
    /\ vectorstore = None
    /\ rag_chain = None
    /\ chat_memory = <<>>
    /\ objects = 0
    /\ llm_call = None
    /\ last = None
    /\ pre_upload = 0
    /\ requests = 0
    /\ handler = [vectorstore |-> None, rag_chain |-> None,
                  embeddings |-> None, llm |-> None]
    /\ h_call = NoCall
    /\ memory_manager = <<>>
    /\ sent = [s \in Sessions |-> [n |-> 0, base |-> 0]]
    /\ m_call = NoCall
    /\ reply = [text |-> <<>>, given |-> NoGiven]
    /\ parsed = None
    /\ content = <<>>
    /\ story = NoStory
    /\ worker = "w1"
    /\ idle = [w \in Workers \ {"w1"} |-> NoGlobals]
    /\ threads = [t \in Threads |-> IdleThread]
    /\ deref = NoUse

Next == UploadFile \/ AskQuestion \/ ClearMemory

Spec == Init /\ [][Next]_vars

\* One RAGHandler over the upload directory the upload handler writes to.
StoreFile == requests < MaxStored /\ UploadFile

HandlerNext == StoreFile \/ ResetVectorstore \/ Initialize \/ GetResponse

HandlerSpec == Init /\ [][HandlerNext]_vars

\* One MemoryManager and the sessions that talk to it.
MemoryNext == AddToMemory \/ GetConversationContext \/ ClearSessionMemory

MemorySpec == Init /\ [][MemoryNext]_vars

\* The parser applied to every reply of the bounded reply sets.
ParserInit ==
    /\ Init!1 /\ Init!2 /\ Init!3 /\ Init!4 /\ Init!5 /\ Init!6 /\ Init!7 /\ Init!8
    /\ Init!9 /\ Init!10 /\ Init!11 /\ Init!12 /\ Init!13 /\ Init!14 /\ Init!15
    /\ reply \in [text : FreeReplies, given : {NoGiven}]
                 \cup {[text |-> Compose(g), given |-> g] : g \in Givens}
    /\ parsed = None
    /\ Init!18 /\ Init!19 /\ Init!20 /\ Init!21 /\ Init!22 /\ Init!23

ParserNext == ParseReply \/ AppParseReply

ParserSpec == ParserInit /\ [][ParserNext]_vars

\* The formatter applied to every summary of the bounded set.
FormatterInit ==
    /\ Init!1 /\ Init!2 /\ Init!3 /\ Init!4 /\ Init!5 /\ Init!6 /\ Init!7 /\ Init!8
    /\ Init!9 /\ Init!10 /\ Init!11 /\ Init!12 /\ Init!13 /\ Init!14 /\ Init!15
    /\ Init!16 /\ Init!17
    /\ content \in FormatContents
    /\ Init!19 /\ Init!20 /\ Init!21 /\ Init!22 /\ Init!23

FormatterNext == FormatContent

\* Two request threads in one process.
ThreadNext ==
    \/ Begin \/ UploadSave \/ UploadReset
    \/ AskTest \/ AskGet \/ AskAssign \/ AskCheck \/ AskChain \/ AskInvoke

ThreadSpec == Init /\ [][ThreadNext]_vars

\* Two worker processes over one upload directory.
WorkerNext == RoutedUpload \/ RoutedAsk \/ RoutedClear \/ Dispatch

WorkerSpec == Init /\ [][WorkerNext]_vars

FormatterSpec == FormatterInit /\ [][FormatterNext]_vars

-----------------------------------------------------------------------------
(* Properties of the request handlers of app.py, checked under Spec *)

\* the last exchange is a POST /ask for which the retrieval chain was invoked
Answered ==
    /\ last # None
    /\ last.request.route = "ask"
    /\ llm_call # None
    /\ llm_call.at = requests

\* C1: after a successful upload, a question is answered by an index and by a
\* pipeline (retriever and prompt file list) that were both built after that
\* upload: the chain that answers is no object that existed when the file was
\* stored, and its retriever is the index the handler has just ensured.
C1_AnswerUsesPipelineBuiltAfterUpload ==
    Answered =>
        /\ llm_call.chain.retriever.id > pre_upload
        /\ llm_call.chain.id > pre_upload
        /\ llm_call.chain.retriever = vectorstore
        /\ llm_call.chain.files_context = vectorstore.files

\* some listed document of the upload directory cannot be parsed
SomeCorrupt == \E f \in get_available_files(uploads) : uploads[f] = "corrupt"

\* the listed documents that can be parsed and hold text
Parsable == {f \in get_available_files(uploads) : uploads[f] = "text"}

\* C4: a document that cannot be parsed does not abort the build: a question
\* asked while such a document is stored does not fail, and when other
\* documents hold text the index is built over them.
C4_UnparsableDocumentDoesNotAbortBuild ==
    (/\ last # None
     /\ last.request.route = "ask"
     /\ last.request.question # <<>>
     /\ SomeCorrupt)
    => /\ last.status = 200
       /\ Parsable # {} => (vectorstore # None /\ vectorstore.sources = Parsable)

\* the deque of a session, empty for a session the memory does not know
TurnsOf(memory, session_id) ==
    IF session_id \in DOMAIN memory THEN memory[session_id] ELSE <<>>

\* C8: when the invocation of the chain raises, the ask handler answers 200
\* with the fixed apology, and the caller's session memory grows by exactly
\* one turn, the question with the apology as its answer; no other session
\* changes.
C8_ModelFailureGivesApologyAndOneTurn ==
    [][(llm_call' # llm_call /\ llm_call'.raised /\ last'.request.route = "ask") =>
        LET sid == last'.request.session_id
            old == TurnsOf(chat_memory, sid)
            new == TurnsOf(chat_memory', sid)
        IN  /\ last'.status = 200
            /\ last'.body = [response |-> APOLOGY]
            /\ Len(new) = Len(old) + 1
            /\ SubSeq(new, 1, Len(old)) = old
            /\ new[Len(new)].user = last'.request.question
            /\ new[Len(new)].ai = APOLOGY
            /\ \A s \in Sessions \ {sid} :
                   TurnsOf(chat_memory', s) = TurnsOf(chat_memory, s)
      ]_vars

\* C8 witness: a session that already holds a turn asked again, the model
\* raised, and the apology was recorded as the answer of the second turn.
C8_Witness ==
    /\ Answered
    /\ llm_call.raised
    /\ last.body = [response |-> APOLOGY]
    /\ Len(TurnsOf(chat_memory, last.request.session_id)) = 2
    /\ chat_memory[last.request.session_id][2].ai = APOLOGY

-----------------------------------------------------------------------------
(* Properties of RAGHandler, checked under HandlerSpec *)

\* this step is a call of the RAGHandler method op
Called(op) == h_call' # h_call /\ h_call'.op = op

\* C2: reset_vectorstore leaves neither an index nor a chain, from whatever
\* state it is called in; and the initialize that follows it lists the upload
\* directory again and, when it reports success, holds an index and a chain
\* that are both new objects built from the directory as it is now (the chain's
\* retriever being the new index), and otherwise holds none.
C2_InvalidateForcesRebuild ==
    [][/\ Called("reset_vectorstore") =>
              (handler'.vectorstore = None /\ handler'.rag_chain = None)
       /\ (Called("initialize") /\ h_call.op = "reset_vectorstore") =>
              /\ h_call'.scanned
              /\ IF h_call'.value = PyBool(TRUE)
                 THEN /\ handler'.vectorstore # None
                      /\ handler'.vectorstore.id > objects
                      /\ handler'.vectorstore.files = get_available_files(uploads)
                      /\ handler'.rag_chain # None
                      /\ handler'.rag_chain.id > objects
                      /\ handler'.rag_chain.retriever = handler'.vectorstore
                      /\ handler'.rag_chain.files_context = get_available_files(uploads)
                 ELSE handler'.vectorstore = None /\ handler'.rag_chain = None
      ]_vars

\* C2 witness: an initialized handler was reset and initialized again: the
\* second initialize started from nothing and built the second pair of objects.
C2_Witness ==
    /\ h_call.op = "initialize"
    /\ h_call.before.vectorstore = None
    /\ h_call.before.rag_chain = None
    /\ h_call.value = PyBool(TRUE)
    /\ handler.vectorstore.id >= 3
    /\ handler.rag_chain.retriever = handler.vectorstore

\* the documents the build lists yield no content at all
NoContent(store) ==
    \A f \in get_available_files(store) : store[f] # "text"

\* C3: with no index cached, initialize returns False exactly when the store
\* is empty or no document yields content, and in every other case returns
\* True with an index built.
C3_ReadyIffSomeContent ==
    (h_call.op = "initialize" /\ h_call.before.vectorstore = None) =>
        /\ h_call.value = PyBool(FALSE) <=> NoContent(h_call.store)
        /\ ~NoContent(h_call.store) =>
               (h_call.value = PyBool(TRUE) /\ h_call.after.vectorstore # None)

\* C5: with an index and a chain in place, initialize returns True, keeps the
\* very same index and chain objects, constructs nothing, does not list the
\* upload directory and leaves it as it is.
C5_InitializeIdempotentOnceBuilt ==
    [][(Called("initialize") /\ handler.vectorstore # None /\ handler.rag_chain # None) =>
          /\ h_call'.value = PyBool(TRUE)
          /\ ~h_call'.scanned
          /\ handler' = handler
          /\ objects' = objects
          /\ uploads' = uploads
      ]_vars

\* C5 witness: initialize was called on a built handler after the upload
\* directory had changed since the build, and returned True with the old index.
C5_Witness ==
    /\ h_call.op = "initialize"
    /\ h_call.before.vectorstore # None
    /\ h_call.before.rag_chain # None
    /\ get_available_files(h_call.store) # h_call.before.vectorstore.files
    /\ h_call.value = PyBool(TRUE)
    /\ handler = h_call.before

-----------------------------------------------------------------------------
(* Properties of MemoryManager, checked under MemorySpec *)

\* the n-th turn of a session, as add_to_memory stores it
Turn(n) == [user |-> UserMessage(n), ai |-> AiResponse(n), timestamp |-> n]

\* the numbers of the turns a session should retain: those appended since its
\* last clear, the twenty latest of them at most
RetainedCount(s) ==
    LET appended == sent[s].n - sent[s].base
    IN  IF appended > 20 THEN 20 ELSE appended

Retained(s) == [i \in 1..RetainedCount(s) |-> Turn(sent[s].n - RetainedCount(s) + i)]

\* C6: whatever appends and clears happened, no session holds more than 20
\* turns, and each session holds exactly the latest turns appended to it since
\* its last clear (at most 20 of them), oldest first.
C6_MemoryIsBoundedFifo ==
    \A s \in Sessions :
        /\ Len(TurnsOf(memory_manager, s)) <= 20
        /\ TurnsOf(memory_manager, s) = Retained(s)

\* C6 witness: 25 turns were appended to one session and turns 6..25 are kept.
C6_Witness ==
    /\ sent["s1"] = [n |-> 25, base |-> 0]
    /\ Len(memory_manager["s1"]) = 20
    /\ memory_manager["s1"][1] = Turn(6)
    /\ memory_manager["s1"][20] = Turn(25)

\* the text the claim describes for turns lo..hi: a User line then an AI line each
RECURSIVE Lines(_, _)
Lines(lo, hi) ==
    IF lo > hi THEN <<>>
    ELSE <<"User: ">> \o UserMessage(lo) \o <<"\n">>
         \o <<"AI: ">> \o AiResponse(lo) \o <<"\n", "\n">>
         \o Lines(lo + 1, hi)

CONTEXT_HEADER == <<"PREVIOUS CONVERSATION:", "\n">>

\* C7: the context of a session that is unknown or holds no turn (one that was
\* cleared included) is the empty string; otherwise it is the header followed
\* by the retained turns, oldest first; it is never the header alone.
C7_ContextIsEmptyOrHeaderAndTurns ==
    m_call.op = "get_conversation_context" =>
        LET s == m_call.session_id
        IN  /\ m_call.value # CONTEXT_HEADER
            /\ m_call.value =
                   IF RetainedCount(s) = 0 THEN <<>>
                   ELSE CONTEXT_HEADER \o Lines(sent[s].n - RetainedCount(s) + 1, sent[s].n)

\* C7 witness: a session that was appended to and then cleared asks for its
\* context and gets the empty string, while the other session holds turns.
C7_Witness ==
    /\ m_call.op = "get_conversation_context"
    /\ sent[m_call.session_id].n = 2
    /\ sent[m_call.session_id].base = 2
    /\ m_call.value = <<>>
    /\ \E s \in Sessions : RetainedCount(s) > 0

-----------------------------------------------------------------------------
(* Properties of the reply parser, checked under ParserSpec *)

\* a composed reply was parsed by utils.extract_file_operation
ParsedGiven == parsed # None /\ parsed.by = "utils" /\ reply.given # NoGiven

IsTrueText(text) == text \in {<<"true">>, <<"True">>, <<"TRUE">>}

Prefixes == {"DOWNLOAD_ORIGINAL:", "DOWNLOAD_SUMMARY:", "FILENAME:", "SUMMARY_CONTENT:"}

\* a line that the parser appends to the summary as it stands
PlainLine(line) ==
    /\ line # <<>>
    /\ strip(line) = line
    /\ Head(line) \notin Prefixes \cup {"ANSWER:"}

\* field values that the line convention can carry: no 'ANSWER:' inside the
\* filename or the summary, and a summary made of plain lines
Carried(given) ==
    /\ find(given.filename, "ANSWER:") = 0
    /\ find(given.filename, "\n") = 0
    /\ find(given.summary_content, "ANSWER:") = 0
    /\ given.summary_content # <<>> =>
           \A i \in 1..Len(split(given.summary_content, "\n")) :
               PlainLine(split(given.summary_content, "\n")[i])

FirstLine(lines, i, prefix) ==
    LET hits == {j \in i..Len(lines) : startswith(strip(lines[j]), prefix)}
    IN  IF hits = {} THEN Len(lines) + 1
        ELSE CHOOSE j \in hits : \A k \in hits : j <= k

SUMMARY_PREFIX == "SUMMARY_CONTENT:"
ANSWER_PREFIX == "ANSWER:"

\* the summary the claim describes: the text after SUMMARY_CONTENT: and every
\* line after it up to the first ANSWER: line, each as it stands (trimmed),
\* blank lines between them included, joined by newlines; blank lines at either
\* end are not counted
VerbatimSummary(text) ==
    LET lines == split(text, "\n")
        first == FirstLine(lines, 1, SUMMARY_PREFIX)
        stop == FirstLine(lines, first + 1, ANSWER_PREFIX)
    IN  strip(join(<<"\n">>,
                   <<strip(after_colon(strip(lines[first])))>>
                   \o [i \in 1..(stop - first - 1) |-> strip(lines[first + i])]))

\* the reply up to and including its first ANSWER: line
UpToAnswer(text) ==
    LET lines == split(text, "\n")
        stop == FirstLine(lines, 1, ANSWER_PREFIX)
    IN  join(<<"\n">>, SubSeq(lines, 1, IF stop > Len(lines) THEN Len(lines) ELSE stop))

\* C10: once a SUMMARY_CONTENT: line is seen, every following line up to the
\* first ANSWER: line is part of the summary as it stands, blank lines
\* included, joined by newlines; and the lines after the first ANSWER: line
\* change no field of the result.
C10_SummaryVerbatimUntilAnswer ==
    (/\ parsed # None
     /\ reply.given = NoGiven
     /\ FirstLine(split(reply.text, "\n"), 1, SUMMARY_PREFIX)
            < FirstLine(split(reply.text, "\n"), 1, ANSWER_PREFIX)) =>
        /\ parsed.operations.summary_content = VerbatimSummary(reply.text)
        /\ parsed.operations =
               IF parsed.by = "utils" THEN extract_file_operation(UpToAnswer(reply.text))
               ELSE app_extract_file_operation(UpToAnswer(reply.text))

\* no token of the reply is one of the four field prefixes
PrefixFree(text) == \A i \in 1..Len(text) : text[i] \notin Prefixes

\* C11: for every reply that holds none of the field prefixes, either parser
\* returns download_original = false, download_summary = false, no filename and
\* no summary content; and the ask handler given that reply produces no
\* download link and writes no summary file, whether or not the PDF library
\* would fail.
C11_PrefixFreeReplyRequestsNothing ==
    (parsed # None /\ PrefixFree(reply.text)) =>
        /\ ~parsed.operations.download_original
        /\ ~parsed.operations.download_summary
        /\ parsed.operations.filename = NoString
        /\ parsed.operations.summary_content = NoString
        /\ \A summary_fails \in BOOLEAN :
               LET body == answer_body("s1", reply.text, summary_fails)
               IN  /\ DOMAIN body.downloads = {}
                   /\ body.written = {}
                   /\ body.response = clean_answer(reply.text)

\* C11 witness: app.py's parser was given three lines of plain text, one of
\* them blank and one indented, and returned the defaults.
C11_Witness ==
    /\ parsed # None
    /\ parsed.by = "app"
    /\ reply.text = <<"t", "\n", "\n", " ", "u">>
    /\ parsed.operations.filename = NoString
    /\ ~parsed.operations.download_original

-----------------------------------------------------------------------------
(* Further properties of the request handlers of app.py, checked under Spec *)

\* this step handles a request of the given route
Handled(route) == requests' # requests /\ last'.request.route = route

\* C12: a non-empty question asked while no document is uploaded is answered
\* with exactly the fixed upload-first message, and the response has a
\* downloads field, which is empty.
C12_NoDocumentsGivesMessageAndEmptyDownloads ==
    (/\ last # None
     /\ last.request.route = "ask"
     /\ last.request.question # <<>>
     /\ DOMAIN uploads = {})
    => /\ last.body.response = UPLOAD_FIRST
       /\ "downloads" \in DOMAIN last.body
       /\ DOMAIN last.body.downloads = {}

\* C15: clearing a session leaves it without any turn, so that its next
\* context is the empty string; the turns of every other session, the index,
\* the chain, the upload directory and the summary files stay as they are;
\* clearing a session the memory does not know changes nothing and answers 200.
C15_ClearRemovesOnlyCallersTurns ==
    [][Handled("clear-memory") =>
        LET sid == last'.request.session_id
        IN  /\ last'.status = 200
            /\ TurnsOf(chat_memory', sid) = <<>>
            /\ get_conversation_context(chat_memory', sid) = <<>>
            /\ \A s \in Sessions \ {sid} :
                   /\ s \in DOMAIN chat_memory' <=> s \in DOMAIN chat_memory
                   /\ TurnsOf(chat_memory', s) = TurnsOf(chat_memory, s)
            /\ vectorstore' = vectorstore
            /\ rag_chain' = rag_chain
            /\ uploads' = uploads
            /\ downloads' = downloads
            /\ sid \notin DOMAIN chat_memory => chat_memory' = chat_memory
      ]_vars

\* C15 witness: s2 asked at request 2 and s1 at request 3, each answered from
\* the index; request 4 cleared s1, whose turn is gone while s2 keeps its own.
C15_Witness ==
    /\ requests = 4
    /\ last.request = [route |-> "clear-memory", session_id |-> "s1"]
    /\ llm_call # None
    /\ llm_call.at = 3
    /\ DOMAIN chat_memory = {"s2"}
    /\ Len(chat_memory["s2"]) = 1
    /\ chat_memory["s2"][1].timestamp = 2
    /\ vectorstore # None

\* C17: every file the upload handler stored is returned by the document
\* listing, and so is among the files of an index built from the directory.
C17_AcceptedFilesAreListed ==
    \A f \in DOMAIN uploads : f \in get_available_files(uploads)

\* the last exchange is a POST /ask whose chain invocation returned a reply
AnsweredOk == Answered /\ ~llm_call.raised

\* C18: in an answered ask, downloads holds 'original' only if the parsed reply
\* sets download_original, names a file and that file is in the upload
\* directory, and holds 'summary' only if the reply sets download_summary,
\* names a file, carries summary content and the summary file was written; a
\* reply that requests nothing gives empty downloads and a response equal to
\* the extracted answer.
C18_LinksOnlyForRequestedExistingFiles ==
    AnsweredOk =>
        LET body == last.body
            operations == body.operations
        IN  /\ operations = app_extract_file_operation(llm_call.answer)
            /\ "original" \in DOMAIN body.downloads =>
                   /\ operations.download_original
                   /\ Truthy(operations.filename)
                   /\ operations.filename \in DOMAIN uploads
            /\ "summary" \in DOMAIN body.downloads =>
                   /\ operations.download_summary
                   /\ Truthy(operations.filename)
                   /\ Truthy(operations.summary_content)
                   /\ (<<"summary_">> \o operations.filename) \in downloads
            /\ (~operations.download_original /\ ~operations.download_summary) =>
                   /\ DOMAIN body.downloads = {}
                   /\ body.response = clean_answer(llm_call.answer)

\* C18 witness: the reply asked for both files of a.pdf; a.pdf is stored but the
\* summary could not be written, so only the original is linked.
C18_Witness ==
    /\ AnsweredOk
    /\ llm_call.answer = FULL_REPLY
    /\ A_PDF \in DOMAIN uploads
    /\ DOMAIN last.body.downloads = {"original"}
    /\ downloads = {}
    /\ last.body.response # clean_answer(llm_call.answer)

\* C19: an ask request that reaches the chain appends exactly one turn to the
\* caller's session, the question with the extracted answer (without the link
\* block) or with the apology when the chain raised; an ask request that ends
\* before the chain appends nothing; no ask request changes another session.
C19_AskAppendsAtMostOneTurn ==
    [][Handled("ask") =>
        LET sid == last'.request.session_id
            old == TurnsOf(chat_memory, sid)
            new == TurnsOf(chat_memory', sid)
        IN  /\ \A s \in Sessions \ {sid} :
                   TurnsOf(chat_memory', s) = TurnsOf(chat_memory, s)
            /\ IF llm_call' # llm_call
               THEN /\ Len(new) = Len(old) + 1
                    /\ SubSeq(new, 1, Len(old)) = old
                    /\ new[Len(new)].user = last'.request.question
                    /\ new[Len(new)].ai =
                           IF llm_call'.raised THEN APOLOGY
                           ELSE clean_answer(llm_call'.answer)
               ELSE new = old
      ]_vars

\* C19 witness: a reply with download links was answered; the turn stored for
\* the caller holds the answer alone, the other session holds its earlier turn.
C19_Witness ==
    /\ AnsweredOk
    /\ DOMAIN last.body.downloads # {}
    /\ LET sid == last.request.session_id
       IN  /\ Len(chat_memory[sid]) = 1
           /\ chat_memory[sid][1].ai = <<"x">>
           /\ chat_memory[sid][1].ai # last.body.response
           /\ \E s \in DOMAIN chat_memory \ {sid} : Len(chat_memory[s]) = 1

-----------------------------------------------------------------------------
(* Further properties of RAGHandler, checked under HandlerSpec *)

\* C20: after every call the handler holds a chain only if it holds an index;
\* and get_response invokes the model only when initialize has returned True
\* since the most recent reset_vectorstore: in that case the chain of the
\* handler is invoked, and in every other case the call raises ValueError,
\* invokes nothing and leaves the handler as it was.
C20_ResponseOnlyWhenInitialized ==
    [][/\ handler'.rag_chain # None => handler'.vectorstore # None
       /\ Called("get_response") =>
              IF h_call.ready
              THEN /\ h_call'.raised # "ValueError"
                   /\ llm_call' # None
                   /\ llm_call'.chain = handler.rag_chain
                   /\ handler' = handler
              ELSE /\ h_call'.raised = "ValueError"
                   /\ llm_call' = llm_call
                   /\ handler' = handler
      ]_vars

\* C20 witness: a handler that had built its index and chain (objects 1 and 2)
\* and answered was reset, and the get_response that followed raised ValueError.
C20_Witness ==
    /\ h_call.op = "get_response"
    /\ h_call.raised = "ValueError"
    /\ ~h_call.ready
    /\ objects >= 2
    /\ llm_call # None
    /\ handler.rag_chain = None
    /\ handler.vectorstore = None

-----------------------------------------------------------------------------
(* Properties of the summary formatter, checked under FormatterSpec *)

\* the formatter takes this line for an item of a numbered list
NumberedLine(raw) ==
    LET line == strip(raw)
    IN  /\ line # <<>>
        /\ ~is_main_heading(line)
        /\ ~is_subheading(line)
        /\ ~is_bullet_point(line)
        /\ is_numbered_point(line)

\* the number the claim gives the numbered line i of lines: one more than the
\* number of numbered lines that directly precede it
RECURSIVE RunNumber(_, _)
RunNumber(lines, i) ==
    IF i > 1 /\ NumberedLine(lines[i - 1]) THEN RunNumber(lines, i - 1) + 1 ELSE 1

\* the numbers the claim describes for a text, one for each numbered line
RECURSIVE RunNumbersFrom(_, _)
RunNumbersFrom(lines, i) ==
    IF i > Len(lines) THEN <<>>
    ELSE (IF NumberedLine(lines[i]) THEN <<ToString(RunNumber(lines, i))>> ELSE <<>>)
         \o RunNumbersFrom(lines, i + 1)

IsNumberedParagraph(flowable) ==
    flowable.cls = "Paragraph" /\ flowable.style = "CustomNumbered"

\* the numbers the formatter rendered, in order
RenderedNumbers(flowables) ==
    LET numbered == SelectSeq(flowables, IsNumberedParagraph)
    IN  [i \in 1..Len(numbered) |-> numbered[i].text[1]]

\* C13: the number rendered for a numbered line is one more than the number of
\* numbered lines that directly precede it: a heading, a bullet, a paragraph or
\* a blank line before it makes it number 1, whatever number the line carries.
C13_CounterResetsOnEveryBreak ==
    story # NoStory =>
        RenderedNumbers(story) = RunNumbersFrom(split(content, "\n"), 1)

-----------------------------------------------------------------------------
(* Properties of the worker processes, checked under WorkerSpec *)

\* the index worker w holds
IndexOf(w) == IF w = worker THEN vectorstore ELSE idle[w].vectorstore

\* some listed document is not among the files the index was built from
Stale(index) ==
    index # None /\ \E f \in get_available_files(uploads) : f \notin index.files

\* C14: the index is state of one worker.  The index of a worker changes only
\* in a step in which that worker handles an upload or a question, so an upload
\* handled by one worker leaves the index of every other worker as it is; and
\* an index a worker holds is given up only when that worker itself handles an
\* upload: until then it answers from it, however stale it is.
C14_IndexIsPerWorkerAndStaysStale ==
    [][\A w \in Workers :
          LET before == IndexOf(w)
              after == IF w = worker' THEN vectorstore' ELSE idle'[w].vectorstore
          IN  /\ after # before =>
                     /\ w = worker
                     /\ worker' = worker
                     /\ requests' # requests
                     /\ last'.request.route \in {"upload", "ask"}
              /\ (before # None /\ after # before) =>
                     /\ last'.request.route = "upload"
                     /\ after = None
              /\ (w = worker /\ Handled("ask") /\ before # None) => after = before
      ]_vars

\* C14 witness: the worker that answered the last question did so from the
\* index it had built before another worker stored a document: its index lacks
\* a listed document, while the worker that handled the upload holds no index.
C14_Witness ==
    /\ Answered
    /\ Stale(vectorstore)
    /\ llm_call.chain.retriever = vectorstore
    /\ \E w \in DOMAIN idle :
           /\ idle[w].vectorstore = None
           /\ idle[w].rag_chain = None

-----------------------------------------------------------------------------
(* Properties of the request threads, checked under ThreadSpec *)

\* C16: whenever an ask_question thread creates the retriever from the global
\* vectorstore, and whenever it invokes the chain, the global holds an index:
\* it is never None at those moments, however the steps of concurrent upload
\* and ask requests interleave.
C16_IndexPresentAtEveryUse ==
    deref.at # "none" => deref.index # None

====
